---- MODULE Spec2Model ----
(***************************************************************************)
(* Model of the piring-sehat backend: the Firebase authentication gate     *)
(* (src/middleware/auth.js) and the Supabase data-access layer             *)
(* (src/services/foodLogsService.js).                                      *)
(*                                                                         *)
(* Strings are tuples of one-character strings, so that startsWith, slice, *)
(* split and Number() are computed and not assumed.  JavaScript values are *)
(* records [t, n, s]: t is the kind, n the numeric value of a number, s    *)
(* the characters of a string.  Numbers are integers (calories and targets *)
(* far below 2^53, where double arithmetic is exact).                      *)
(***************************************************************************)
EXTENDS Integers, Sequences, FiniteSets, TLC

VARIABLES
    http,        \* requests passing through requireAuth
    users,       \* rows of the `users` table, in insertion order
    nextUserId,  \* next id the store assigns to a users row
    storeUnique, \* whether the store's schema has a unique constraint on firebase_uid
    calls,       \* syncFirebaseUser calls in flight
    food_logs,   \* rows of the `food_logs` table, in insertion (logged_at) order
    nextLogId,   \* next id / logged_at tick the store assigns to a food_logs row
    last,        \* outcome of the data-access operation that completed last
    prev         \* the outcome `last` held before the latest users operation completed

vars == <<http, users, nextUserId, storeUnique, calls, food_logs, nextLogId, last, prev>>

dataVars == <<users, nextUserId, storeUnique, calls, food_logs, nextLogId, last, prev>>

(***************************************************************************)
(* Bounds of the model.                                                    *)
(***************************************************************************)
MaxRequests == 2

MaxCalls == 2

MaxUsers == 2

MaxLogs == 2

MaxDate == 3

(***************************************************************************)
(* JavaScript values.                                                      *)
(***************************************************************************)
JsNull == [t |-> "null", n |-> 0, s |-> <<>>]

JsUndefined == [t |-> "undefined", n |-> 0, s |-> <<>>]

JsNaN == [t |-> "NaN", n |-> 0, s |-> <<>>]

JsNum(k) == [t |-> "number", n |-> k, s |-> <<>>]

JsStr(q) == [t |-> "string", n |-> 0, s |-> q]

\* ToBoolean: null, undefined, NaN, 0 and '' are falsy.
Truthy(v) ==
    CASE v.t = "number" -> v.n # 0
      [] v.t = "string" -> Len(v.s) > 0
      [] OTHER -> FALSE

\* a || b
JsOr(a, b) == IF Truthy(a) THEN a ELSE b

\* a == null (true of null and undefined only)
LooseNull(v) == v.t \in {"null", "undefined"}

\* a ?? b
JsCoalesce(a, b) == IF LooseNull(a) THEN b ELSE a

Digits == <<"0", "1", "2", "3", "4", "5", "6", "7", "8", "9">>

IsDigit(c) == \E i \in 1..10 : Digits[i] = c

DigitValue(c) == (CHOOSE i \in 1..10 : Digits[i] = c) - 1

IsSpace(c) == c = " "

RECURSIVE TrimStart(_)
TrimStart(q) ==
    IF q # <<>> /\ IsSpace(Head(q)) THEN TrimStart(Tail(q)) ELSE q

RECURSIVE TrimEnd(_)
TrimEnd(q) ==
    IF q # <<>> /\ IsSpace(q[Len(q)]) THEN TrimEnd(SubSeq(q, 1, Len(q) - 1)) ELSE q

RECURSIVE DecimalValue(_)
DecimalValue(q) ==
    IF q = <<>> THEN 0
    ELSE 10 * DecimalValue(SubSeq(q, 1, Len(q) - 1)) + DigitValue(q[Len(q)])

\* StringToNumber on the strings of the model (spaces, digits, letters): white
\* space is trimmed, the empty string is 0, a run of digits its decimal value,
\* anything else NaN.
StringToNumber(q) ==
    LET w == TrimEnd(TrimStart(q))
    IN  IF w = <<>> THEN JsNum(0)
        ELSE IF \A i \in 1..Len(w) : IsDigit(w[i]) THEN JsNum(DecimalValue(w))
        ELSE JsNaN

\* Number(v)
Number(v) ==
    CASE v.t = "null" -> JsNum(0)
      [] v.t = "undefined" -> JsNaN
      [] v.t = "string" -> StringToNumber(v.s)
      [] OTHER -> v

\* a + b on numbers: NaN absorbs.
JsAdd(a, b) ==
    IF a.t = "NaN" \/ b.t = "NaN" THEN JsNaN ELSE JsNum(a.n + b.n)

\* String.prototype.startsWith
StartsWith(q, p) == Len(q) >= Len(p) /\ SubSeq(q, 1, Len(p)) = p

\* String.prototype.slice(k), k >= 0
Slice(q, k) == SubSeq(q, k + 1, Len(q))

(***************************************************************************)
(* src/middleware/auth.js                                                  *)
(***************************************************************************)
Requests == 1..MaxRequests

BearerPrefix == <<"B", "e", "a", "r", "e", "r", " ">>

BearerLen == 7

MissingToken == "Unauthorized: missing token"

InvalidToken == "Unauthorized: invalid token"

\* Tokens Firebase accepts.  Any other token is rejected, and a call for an
\* accepted token may still fail (service error).
ValidTokens == {<<"g">>, <<"h">>}

\* The Authorization headers a request may carry; present = FALSE is a request
\* without the header.
Headers ==
    {[present |-> FALSE, s |-> <<>>]} \cup
    {[present |-> TRUE, s |-> q] : q \in
        { <<>>,
          BearerPrefix,
          BearerPrefix \o <<"g">>,
          BearerPrefix \o <<"h">>,
          BearerPrefix \o <<"x">>,
          BearerPrefix \o <<" ", "g">>,
          <<"B", "e", "a", "r", "e", "r">>,
          <<"B", "e", "a", "r", "e", "r", "g">>,
          <<"b", "e", "a", "r", "e", "r", " ", "g">>,
          <<"B", "a", "s", "i", "c", " ", "g">>,
          <<" ">> \o BearerPrefix \o <<"g">> }}

NoIdentity == [uid |-> <<>>]

\* The payload verifyIdToken resolves with.
Decoded(token) == [uid |-> <<"u", ":">> \o token]

\* const authHeader = req.headers.authorization || ''
AuthHeader(h) == IF h.present /\ Len(h.s) > 0 THEN h.s ELSE <<>>

\* authHeader.startsWith('Bearer ') ? authHeader.slice(7) : null
ExtractTokenPrefixOnly(h) ==
    [isNull |-> FALSE, s |-> Slice(AuthHeader(h), BearerLen)]

ExtractToken(h) ==
    IF StartsWith(AuthHeader(h), BearerPrefix)
    THEN [isNull |-> FALSE, s |-> Slice(AuthHeader(h), BearerLen)]
    ELSE [isNull |-> TRUE, s |-> <<>>]

\* !token
NoToken(tok) == tok.isNull \/ Len(tok.s) = 0

EvVerify(token) == [e |-> "verifyIdToken", status |-> 0, msg |-> "", seen |-> Decoded(token)]

EvNext(identity) == [e |-> "next", status |-> 0, msg |-> "", seen |-> identity]

\* res.status(401).json({ error: msg })
EvRes(code, msg) == [e |-> "res", status |-> code, msg |-> msg, seen |-> NoIdentity]

NewRequest ==
    [pc |-> "new", header |-> [present |-> FALSE, s |-> <<>>], token |-> <<>>,
     verified |-> "none", firebaseUser |-> NoIdentity, events |-> <<>>]

\* Lines 20-28: up to the first await.
requireAuth(r, h) ==
    /\ http[r].pc = "new"
    /\ LET tok == ExtractToken(h)
       IN  IF NoToken(tok)
           THEN http' = [http EXCEPT ![r] =
                    [@ EXCEPT !.pc = "done", !.header = h,
                              !.events = @ \o <<EvRes(401, MissingToken)>>]]
           ELSE http' = [http EXCEPT ![r] =
                    [@ EXCEPT !.pc = "verifying", !.header = h, !.token = tok.s,
                              !.events = @ \o <<EvVerify(tok.s)>>]]
    /\ UNCHANGED dataVars

\* Lines 29-30 and, when next() throws, the catch of lines 31-34.
AfterVerifyNextFirst(q, nextThrows) ==
    [q EXCEPT !.pc = "done",
              !.firebaseUser = Decoded(q.token),
              !.events = @ \o <<EvNext(q.firebaseUser)>> \o
                  (IF nextThrows THEN <<EvRes(401, InvalidToken)>> ELSE <<>>)]

AfterVerify(q, nextThrows) ==
    [q EXCEPT !.pc = "done",
              !.firebaseUser = Decoded(q.token),
              !.events = @ \o <<EvNext(Decoded(q.token))>> \o
                  (IF nextThrows THEN <<EvRes(401, InvalidToken)>> ELSE <<>>)]

\* Lines 31-34 after verifyIdToken rejected.
AfterRejectRetryOnce(q) ==
    IF Len(q.events) < 2
    THEN [q EXCEPT !.events = @ \o <<EvVerify(q.token)>>]
    ELSE [q EXCEPT !.pc = "done",
                   !.events = @ \o <<EvRes(401, InvalidToken)>>]

AfterReject(q) ==
    [q EXCEPT !.pc = "done",
              !.events = @ \o <<EvRes(401, InvalidToken)>>]

\* verifyIdToken resolves: the token is one Firebase accepts.
verifyResolved(r, nextThrows) ==
    /\ http[r].pc = "verifying"
    /\ http[r].token \in ValidTokens
    /\ http' = [http EXCEPT ![r] =
           AfterVerify([@ EXCEPT !.verified = "accepted"], nextThrows)]
    /\ UNCHANGED dataVars

\* verifyIdToken rejects: invalid, expired or malformed token, or service error.
verifyRejected(r) ==
    /\ http[r].pc = "verifying"
    /\ http' = [http EXCEPT ![r] = AfterReject([@ EXCEPT !.verified = "rejected"])]
    /\ UNCHANGED dataVars

(***************************************************************************)
(* Properties of the authentication gate (checked under SpecAuth).         *)
(***************************************************************************)
EventsOf(r, kind) == SelectSeq(http[r].events, LAMBDA ev : ev.e = kind)

\* The header is absent or does not start with 'Bearer '.
HeaderLacksBearer(h) ==
    \/ ~h.present
    \/ Len(h.s) < Len(BearerPrefix)
    \/ \E i \in 1..Len(BearerPrefix) : h.s[i] # BearerPrefix[i]

\* What follows 'Bearer ' in a header that starts with it.
TokenOf(h) == [i \in 1..(Len(h.s) - Len(BearerPrefix)) |-> h.s[i + Len(BearerPrefix)]]

\* C3: a request whose Authorization header is absent or lacks the 'Bearer '
\* prefix is answered 401 'Unauthorized: missing token' at once, and
\* verifyIdToken is never called for it.
C3_MissingTokenRejected ==
    \A r \in Requests :
        (http[r].pc # "new" /\ HeaderLacksBearer(http[r].header)) =>
            /\ http[r].pc = "done"
            /\ http[r].events = <<EvRes(401, MissingToken)>>
            /\ EventsOf(r, "verifyIdToken") = <<>>

C3_Witness ==
    \E r \in Requests :
        /\ http[r].pc = "done"
        /\ http[r].header.present
        /\ Len(http[r].header.s) > Len(BearerPrefix)
        /\ HeaderLacksBearer(http[r].header)

\* C4: when verifyIdToken accepts the token, the decoded identity is on the
\* request when next is invoked, and next is invoked exactly once.
C4_IdentityAttachedBeforeNext ==
    \A r \in Requests :
        http[r].verified = "accepted" =>
            /\ http[r].firebaseUser = Decoded(TokenOf(http[r].header))
            /\ EventsOf(r, "next") = <<EvNext(Decoded(TokenOf(http[r].header)))>>
            /\ EventsOf(r, "verifyIdToken") = <<EvVerify(TokenOf(http[r].header))>>

C4_Witness ==
    \E r \in Requests :
        /\ http[r].pc = "done"
        /\ http[r].verified = "accepted"
        /\ http[r].events[Len(http[r].events)].e = "next"

\* C5: when verifyIdToken fails for a present token, the request is answered
\* 401 'Unauthorized: invalid token', verifyIdToken was called exactly once,
\* next is never invoked and no identity is attached.
C5_InvalidTokenRejected ==
    \A r \in Requests :
        /\ Len(EventsOf(r, "verifyIdToken")) <= 1
        /\ http[r].verified = "rejected" =>
              /\ http[r].pc = "done"
              /\ http[r].events =
                     <<EvVerify(TokenOf(http[r].header)), EvRes(401, InvalidToken)>>
              /\ http[r].firebaseUser = NoIdentity

C5_Witness ==
    \E r \in Requests :
        /\ http[r].pc = "done"
        /\ http[r].verified = "rejected"
        /\ http[r].token \in ValidTokens

\* C10: a finished request either got exactly one 401 response and next was
\* not invoked, or next was invoked exactly once and no response was sent by
\* the gate; also for an empty token and when next throws.
C10_ExactlyOneOutcome ==
    \A r \in Requests :
        http[r].pc = "done" =>
            \/ /\ EventsOf(r, "res") \in {<<EvRes(401, MissingToken)>>,
                                          <<EvRes(401, InvalidToken)>>}
               /\ EventsOf(r, "next") = <<>>
            \/ /\ EventsOf(r, "res") = <<>>
               /\ Len(EventsOf(r, "next")) = 1

\* The empty token after 'Bearer ' is treated as missing.
C10_EmptyTokenIsMissing ==
    \A r \in Requests :
        (http[r].pc # "new" /\ http[r].header.present /\ http[r].header.s = BearerPrefix) =>
            http[r].events = <<EvRes(401, MissingToken)>>

(***************************************************************************)
(* The store (Supabase) as the data-access layer sees it: every call       *)
(* answers {data, error}, or the awaited promise rejects.                  *)
(***************************************************************************)
StoreOutcomes == {"ok", "error", "exception"}

JsError(code) == [t |-> "error", n |-> 0, s |-> <<code>>]

\* An error the store reports in {error}.
StoreError == JsError("store error")

\* maybeSingle() on more than one row.
MultipleRowsError == JsError("PGRST116")

\* insert violating a unique constraint.
ConflictError == JsError("23505")

\* What a rejected promise carries (the transport failed).
StoreException == JsError("fetch failed")

\* new Error('firebase_uid is required')
ValidationError == JsError("firebase_uid is required")

StoreErrors == {StoreError, MultipleRowsError, ConflictError}

\* The answer to a query that matches `rows`, under store outcome `so`.
Respond(so, rows) ==
    CASE so = "ok" -> [kind |-> "ok", isNull |-> FALSE, rows |-> rows, error |-> JsNull]
      [] so = "error" -> [kind |-> "error", isNull |-> TRUE, rows |-> <<>>, error |-> StoreError]
      [] OTHER -> [kind |-> "exception", isNull |-> TRUE, rows |-> <<>>, error |-> StoreException]

\* .maybeSingle(): one row or none; more than one row is an error.
MaybeSingle(so, rows) ==
    IF so = "ok" /\ Len(rows) > 1
    THEN [kind |-> "error", isNull |-> TRUE, rows |-> <<>>, error |-> MultipleRowsError]
    ELSE IF so = "ok" /\ Len(rows) = 0
    THEN [kind |-> "ok", isNull |-> TRUE, rows |-> <<>>, error |-> JsNull]
    ELSE Respond(so, rows)

\* Outcome of an operation: what it returned or threw, and how the store call
\* that decided it ended ("none" when no store call was made).
\* arg and input are recorded for the users operations only: the id or
\* firebase_uid the call was about, and the target it was given.
Return(op, store, arg, input, value) ==
    [op |-> op, store |-> store, outcome |-> "return", arg |-> arg, input |-> input,
     value |-> value]

Throw(op, store, arg, input, error) ==
    [op |-> op, store |-> store, outcome |-> "throw", arg |-> arg, input |-> input,
     value |-> error]

NoOutcome ==
    [op |-> "none", store |-> "none", outcome |-> "none", arg |-> 0, input |-> JsNull,
     value |-> JsNull]

userVars == <<users, nextUserId, storeUnique, calls>>

logVars == <<food_logs, nextLogId>>

(***************************************************************************)
(* src/services/foodLogsService.js: the users table                        *)
(***************************************************************************)
Calls == 1..MaxCalls

UserIds == 1..MaxUsers

IdleCall ==
    [pc |-> "idle", firebase_uid |-> JsUndefined, email |-> JsUndefined,
     username |-> JsNull]

\* The part of a string before the first occurrence of `sep`: split(sep)[0].
RECURSIVE SplitFirst(_, _)
SplitFirst(q, sep) ==
    IF q = <<>> \/ Head(q) = sep THEN <<>>
    ELSE <<Head(q)>> \o SplitFirst(Tail(q), sep)

\* username || (email ? email.split('@')[0] : null)
EffectiveUsername(a) ==
    JsOr(a.username,
         IF Truthy(a.email) THEN JsStr(SplitFirst(a.email.s, "@")) ELSE JsNull)

\* .from('users').select('id').eq('firebase_uid', uid)
SelectByFirebaseUid(table, uid) ==
    SelectSeq(table, LAMBDA row : row.firebase_uid = uid)

\* .from('users').select(...).eq('id', userId)
SelectUserById(table, userId) ==
    SelectSeq(table, LAMBDA row : row.id = userId)

\* The store's answer to the insert of lines 193-201: under a unique constraint
\* on firebase_uid a second row for the same uid is a conflict.
InsertUserResponse(so, c) ==
    IF so = "ok" /\ storeUnique /\ SelectByFirebaseUid(users, calls[c].firebase_uid) # <<>>
    THEN [kind |-> "error", isNull |-> TRUE, rows |-> <<>>, error |-> ConflictError]
    ELSE Respond(so, <<[id |-> nextUserId,
                        firebase_uid |-> calls[c].firebase_uid,
                        email |-> calls[c].email,
                        username |-> calls[c].username,
                        daily_calorie_target |-> JsNull]>>)

\* Lines 172-181: validation, the derived username, and the lookup being sent.
syncFirebaseUser(c, a) ==
    /\ calls[c].pc = "idle"
    /\ IF ~Truthy(a.firebase_uid)
       THEN /\ last' = Throw("syncFirebaseUser", "none", a.firebase_uid, JsNull,
                             ValidationError)
            /\ prev' = last
            /\ UNCHANGED calls
       ELSE /\ calls' = [calls EXCEPT ![c] =
                    [pc |-> "select", firebase_uid |-> a.firebase_uid,
                     email |-> a.email, username |-> EffectiveUsername(a)]]
            /\ UNCHANGED <<last, prev>>
    /\ UNCHANGED <<http, users, nextUserId, storeUnique, logVars>>

\* Which return statement ended a syncFirebaseUser call: `return existing.id`
\* (line 189) or `return data.id` (line 208).  Recorded as the outcome's input.
Existing == JsStr(<<"existing.id">>)

Inserted == JsStr(<<"data.id">>)

\* What the call does with the lookup's answer (lines 183-190): the outcome, or
\* NoOutcome when it goes on to insert.
SyncAfterSelectAlwaysInsert(uid, resp) ==
    IF resp.kind = "exception" \/ resp.error # JsNull
    THEN Throw("syncFirebaseUser", resp.kind, uid, JsNull, resp.error)
    ELSE NoOutcome

SyncAfterSelect(uid, resp) ==
    IF resp.kind = "exception" \/ resp.error # JsNull
    THEN Throw("syncFirebaseUser", resp.kind, uid, JsNull, resp.error)
    ELSE IF ~resp.isNull
    THEN Return("syncFirebaseUser", resp.kind, uid, Existing, JsNum(resp.rows[1].id))
    ELSE NoOutcome

\* Lines 177-190: the lookup is answered.
syncSelectDone(c, so) ==
    /\ calls[c].pc = "select"
    /\ LET uid == calls[c].firebase_uid
           resp == MaybeSingle(so, SelectByFirebaseUid(users, uid))
           out == SyncAfterSelect(uid, resp)
       IN  IF out.op = "none"
           THEN /\ calls' = [calls EXCEPT ![c].pc = "insert"]
                /\ UNCHANGED <<last, prev>>
           ELSE /\ calls' = [calls EXCEPT ![c] = IdleCall]
                /\ last' = out
                /\ prev' = last
    /\ UNCHANGED <<http, users, nextUserId, storeUnique, logVars>>

\* What the call does with the insert's answer (lines 203-208).
SyncAfterInsert(uid, resp) ==
    IF resp.kind = "exception" \/ resp.error # JsNull
    THEN Throw("syncFirebaseUser", resp.kind, uid, JsNull, resp.error)
    ELSE Return("syncFirebaseUser", resp.kind, uid, Inserted, JsNum(resp.rows[1].id))

\* Lines 193-208: the insert is answered.
syncInsertDone(c, so) ==
    /\ calls[c].pc = "insert"
    /\ nextUserId <= MaxUsers
    /\ LET resp == InsertUserResponse(so, c)
       IN  /\ last' = SyncAfterInsert(calls[c].firebase_uid, resp)
           /\ prev' = last
           /\ IF resp.kind = "ok"
              THEN /\ users' = users \o resp.rows
                   /\ nextUserId' = nextUserId + 1
              ELSE UNCHANGED <<users, nextUserId>>
    /\ calls' = [calls EXCEPT ![c] = IdleCall]
    /\ UNCHANGED <<http, storeUnique, logVars>>

\* data?.daily_calorie_target ?? null  (lines 227-228)
GetTargetResult(userId, resp) ==
    IF resp.kind = "exception" \/ resp.error # JsNull
    THEN Throw("getUserDailyCalorieTarget", resp.kind, userId, JsNull, resp.error)
    ELSE Return("getUserDailyCalorieTarget", resp.kind, userId, JsNull,
                JsCoalesce(IF resp.isNull THEN JsUndefined
                           ELSE resp.rows[1].daily_calorie_target, JsNull))

\* Lines 220-229.
getUserDailyCalorieTarget(userId, so) ==
    /\ last' = GetTargetResult(userId, MaybeSingle(so, SelectUserById(users, userId)))
    /\ prev' = last
    /\ UNCHANGED <<http, userVars, logVars>>

\* const value = target == null ? null : Number(target)  (line 245)
NormalizeTargetNoConversion(target) ==
    IF LooseNull(target) THEN JsNull ELSE target

NormalizeTarget(target) ==
    IF LooseNull(target) THEN JsNull ELSE Number(target)

\* The request body is JSON: NaN is sent, and stored, as null.
JsonValue(v) == IF v.t = "NaN" THEN JsNull ELSE v

\* .update({ daily_calorie_target: value }).eq('id', userId)
UpdateTarget(table, userId, value) ==
    [i \in 1..Len(table) |->
        IF table[i].id = userId
        THEN [table[i] EXCEPT !.daily_calorie_target = JsonValue(value)]
        ELSE table[i]]

\* if (error) throw error; return value  (lines 252-253)
UpdateTargetResult(userId, target, resp) ==
    IF resp.kind = "exception" \/ resp.error # JsNull
    THEN Throw("updateUserDailyCalorieTarget", resp.kind, userId, target, resp.error)
    ELSE Return("updateUserDailyCalorieTarget", resp.kind, userId, target,
                NormalizeTarget(target))

\* Lines 244-254.  A failed call leaves the table as it was.
updateUserDailyCalorieTarget(userId, target, so) ==
    /\ last' = UpdateTargetResult(userId, target, Respond(so, <<>>))
    /\ prev' = last
    /\ users' = IF so = "ok" THEN UpdateTarget(users, userId, NormalizeTarget(target))
                ELSE users
    /\ UNCHANGED <<http, nextUserId, storeUnique, calls, logVars>>

(***************************************************************************)
(* src/services/foodLogsService.js: the food_logs table                    *)
(*                                                                         *)
(* Dates are day numbers: the store compares the `date` column as dates,   *)
(* and zero-padded YYYY-MM-DD strings order the same way.  A select with   *)
(* no .order() may answer in any row order; the sums below do not depend   *)
(* on it, and the rows are taken in insertion order.                       *)
(***************************************************************************)
Dates == 1..MaxDate

\* The `makanan` catalog the nutrition summary joins against.
Makanan ==
    <<[id |-> 1, proteins |-> JsNum(3), fat |-> JsNull, carbohydrate |-> JsStr(<<"4", "0">>)],
      [id |-> 2, proteins |-> JsNum(7), fat |-> JsNum(2), carbohydrate |-> JsNum(0)]>>

ZeroSummary == [protein |-> JsNum(0), carbs |-> JsNum(0), fat |-> JsNum(0)]

\* .eq('user_id', userId).eq('date', date).order('logged_at', { ascending: true })
RECURSIVE InsertByLoggedAt(_, _)
InsertByLoggedAt(row, sorted) ==
    IF sorted = <<>> THEN <<row>>
    ELSE IF row.logged_at < Head(sorted).logged_at THEN <<row>> \o sorted
    ELSE <<Head(sorted)>> \o InsertByLoggedAt(row, Tail(sorted))

RECURSIVE OrderByLoggedAt(_)
OrderByLoggedAt(rows) ==
    IF rows = <<>> THEN <<>>
    ELSE InsertByLoggedAt(Head(rows), OrderByLoggedAt(Tail(rows)))

SelectByDate(table, userId, date) ==
    OrderByLoggedAt(SelectSeq(table, LAMBDA row : row.user_id = userId /\ row.date = date))

\* .eq('user_id', userId).gte('date', startDate).lte('date', endDate)
SelectInRangeExclusiveEnd(table, userId, startDate, endDate) ==
    SelectSeq(table, LAMBDA row :
        row.user_id = userId /\ row.date >= startDate /\ row.date < endDate)

SelectInRange(table, userId, startDate, endDate) ==
    SelectSeq(table, LAMBDA row :
        row.user_id = userId /\ row.date >= startDate /\ row.date <= endDate)

\* .select('calories, makanan!inner(...)').eq('user_id', userId).eq('date', date):
\* the inner join drops the rows whose food_id matches no catalog row.
JoinMakanan(table, userId, date) ==
    LET hit == SelectSeq(table, LAMBDA row :
                   /\ row.user_id = userId /\ row.date = date
                   /\ \E k \in 1..Len(Makanan) : Makanan[k].id = row.food_id)
    IN  [i \in 1..Len(hit) |->
            [calories |-> hit[i].calories,
             makanan |-> Makanan[CHOOSE k \in 1..Len(Makanan) : Makanan[k].id = hit[i].food_id]]]

\* (data || []).reduce((sum, row) => sum + Number(row.calories || 0), 0)
RECURSIVE SumCalories(_)
SumCalories(rows) ==
    IF rows = <<>> THEN JsNum(0)
    ELSE JsAdd(SumCalories(SubSeq(rows, 1, Len(rows) - 1)),
               Number(JsOr(rows[Len(rows)].calories, JsNum(0))))

\* The loop of lines 131-142.
RECURSIVE SumNutrition(_)
SumNutrition(rows) ==
    IF rows = <<>> THEN ZeroSummary
    ELSE LET acc == SumNutrition(SubSeq(rows, 1, Len(rows) - 1))
             food == rows[Len(rows)].makanan
         IN  [protein |-> JsAdd(acc.protein, Number(JsOr(food.proteins, JsNum(0)))),
              carbs |-> JsAdd(acc.carbs, Number(JsOr(food.carbohydrate, JsNum(0)))),
              fat |-> JsAdd(acc.fat, Number(JsOr(food.fat, JsNum(0))))]

\* if (error) throw error; return data || []  (lines 22-23)
GetFoodLogsResult(resp) ==
    IF resp.kind = "exception" \/ resp.error # JsNull
    THEN Throw("getFoodLogsByDate", resp.kind, 0, JsNull, resp.error)
    ELSE Return("getFoodLogsByDate", resp.kind, 0, JsNull,
                IF resp.isNull THEN <<>> ELSE resp.rows)

\* Lines 14-24.
getFoodLogsByDate(userId, date, so) ==
    /\ last' = GetFoodLogsResult( Respond(so, SelectByDate(food_logs, userId, date)))
    /\ UNCHANGED <<http, userVars, logVars, prev>>

\* if (error) throw error; return data  (lines 54-55)
AddFoodLogResult(resp) ==
    IF resp.kind = "exception" \/ resp.error # JsNull
    THEN Throw("addFoodLog", resp.kind, 0, JsNull, resp.error)
    ELSE Return("addFoodLog", resp.kind, 0, JsNull, resp.rows[1])

\* Lines 41-56: foodId is null (0 here) when the caller gives none.
addFoodLog(userId, date, foodName, calories, foodId, so) ==
    /\ nextLogId <= MaxLogs
    /\ LET row == [id |-> nextLogId, user_id |-> userId, date |-> date,
                   food_name_custom |-> foodName, calories |-> calories,
                   food_id |-> foodId, logged_at |-> nextLogId]
       IN  /\ last' = AddFoodLogResult( Respond(so, <<row>>))
           /\ IF so = "ok"
              THEN /\ food_logs' = Append(food_logs, row)
                   /\ nextLogId' = nextLogId + 1
              ELSE UNCHANGED logVars
    /\ UNCHANGED <<http, userVars, prev>>

\* if (error) throw error  (line 74)
DeleteFoodLogResult(resp) ==
    IF resp.kind = "exception" \/ resp.error # JsNull
    THEN Throw("deleteFoodLog", resp.kind, 0, JsNull, resp.error)
    ELSE Return("deleteFoodLog", resp.kind, 0, JsNull, JsUndefined)

\* Lines 68-75: deleting an id no row has changes nothing and is no error.
deleteFoodLog(id, so) ==
    /\ last' = DeleteFoodLogResult(Respond(so, <<>>))
    /\ food_logs' = IF so = "ok" THEN SelectSeq(food_logs, LAMBDA row : row.id # id)
                    ELSE food_logs
    /\ UNCHANGED <<http, userVars, nextLogId, prev>>

\* if (error) throw error; return (data || []).reduce(...)  (lines 97-99)
TotalCaloriesResult(resp) ==
    IF resp.kind = "exception" \/ resp.error # JsNull
    THEN Throw("getTotalCaloriesInRange", resp.kind, 0, JsNull, resp.error)
    ELSE Return("getTotalCaloriesInRange", resp.kind, 0, JsNull,
                SumCalories(IF resp.isNull THEN <<>> ELSE resp.rows))

\* The value getTotalCaloriesInRange returns when the store answers.
TotalCalories(table, userId, startDate, endDate) ==
    TotalCaloriesResult(
        Respond("ok", SelectInRange(table, userId, startDate, endDate))).value

\* Lines 89-100.
getTotalCaloriesInRange(userId, startDate, endDate, so) ==
    /\ last' = TotalCaloriesResult(
                   Respond(so, SelectInRange(food_logs, userId, startDate, endDate)))
    /\ UNCHANGED <<http, userVars, logVars, prev>>

\* Lines 117-148: a reported error and a raised exception both end in the zero
\* summary.
NutritionSummaryResultRethrow(resp) ==
    IF resp.kind = "exception" \/ resp.error # JsNull
    THEN Throw("getDailyNutritionSummary", resp.kind, 0, JsNull, resp.error)
    ELSE Return("getDailyNutritionSummary", resp.kind, 0, JsNull,
                SumNutrition(IF resp.isNull THEN <<>> ELSE resp.rows))

NutritionSummaryResult(resp) ==
    IF resp.kind = "exception"
    THEN Return("getDailyNutritionSummary", resp.kind, 0, JsNull, ZeroSummary)
    ELSE IF resp.error # JsNull
    THEN Return("getDailyNutritionSummary", resp.kind, 0, JsNull, ZeroSummary)
    ELSE Return("getDailyNutritionSummary", resp.kind, 0, JsNull,
                SumNutrition(IF resp.isNull THEN <<>> ELSE resp.rows))

\* Lines 116-149.
getDailyNutritionSummary(userId, date, so) ==
    /\ last' = NutritionSummaryResult(
                   Respond(so, JoinMakanan(food_logs, userId, date)))
    /\ UNCHANGED <<http, userVars, logVars, prev>>

(***************************************************************************)
(* Inputs and specifications.                                              *)
(***************************************************************************)
\* Arguments of syncFirebaseUser: without firebase_uid, with an empty one, and
\* for two identities with and without email and username.
Str_a == JsStr(<<"a", "b", "c">>)

Str_b == JsStr(<<"x", "y", "z">>)

SyncArgs ==
    { [firebase_uid |-> JsUndefined, email |-> JsUndefined, username |-> JsUndefined],
      [firebase_uid |-> JsStr(<<>>), email |-> JsStr(<<"a", "@", "b">>), username |-> JsUndefined],
      [firebase_uid |-> Str_a, email |-> JsStr(<<"a", "@", "b">>), username |-> JsUndefined],
      [firebase_uid |-> Str_a, email |-> JsUndefined, username |-> JsStr(<<"b", "o", "b">>)],
      [firebase_uid |-> Str_b, email |-> JsUndefined, username |-> JsUndefined] }

\* Targets given to updateUserDailyCalorieTarget.
Targets ==
    { JsNull, JsUndefined, JsNum(2000), JsStr(<<"1", "8", "0", "0">>), JsStr(<<"a", "b">>) }

OneSyncArg == [firebase_uid |-> Str_a, email |-> JsUndefined, username |-> JsUndefined]

OtherSyncArg == [firebase_uid |-> Str_b, email |-> JsUndefined, username |-> JsUndefined]

\* Owners of food logs.
LogUsers == {1, 2}

\* What addFoodLog is given besides the date: for the first user calories that
\* are a number, a numeric string, null, missing or no number at all; for the
\* second user a number.  food_id 0 is null.
LogInputs ==
    { [user_id |-> 1, name |-> "nasi", calories |-> JsNum(100), food_id |-> 1],
      [user_id |-> 1, name |-> "teh", calories |-> JsStr(<<"8", "0">>), food_id |-> 0],
      [user_id |-> 1, name |-> "air", calories |-> JsNull, food_id |-> 0],
      [user_id |-> 1, name |-> "es", calories |-> JsUndefined, food_id |-> 2],
      [user_id |-> 1, name |-> "kopi", calories |-> JsStr(<<"a", "b">>), food_id |-> 0],
      [user_id |-> 2, name |-> "sate", calories |-> JsNum(250), food_id |-> 2] }

InitCommon ==
    /\ http = [r \in Requests |-> NewRequest]
    /\ users = <<>>
    /\ nextUserId = 1
    /\ calls = [c \in Calls |-> IdleCall]
    /\ food_logs = <<>>
    /\ nextLogId = 1
    /\ last = NoOutcome
    /\ prev = NoOutcome

\* The authentication gate.
InitAuth == InitCommon /\ storeUnique = FALSE

NextAuth ==
    \E r \in Requests :
        \/ \E h \in Headers : requireAuth(r, h)
        \/ \E nextThrows \in BOOLEAN : verifyResolved(r, nextThrows)
        \/ verifyRejected(r)

SpecAuth == InitAuth /\ [][NextAuth]_vars

\* Food logs of two users being added and summed over date ranges.
InitLogs == InitCommon /\ storeUnique = FALSE

NextLogs ==
    \/ \E so \in StoreOutcomes, d \in Dates, in \in LogInputs :
          addFoodLog(in.user_id, d, in.name, in.calories, in.food_id, so)
    \/ \E so \in StoreOutcomes, u \in LogUsers, d \in Dates, e \in Dates :
          getTotalCaloriesInRange(u, d, e, so)

SpecLogs == InitLogs /\ [][NextLogs]_vars

\* syncFirebaseUser calls running concurrently: a call's lookup and its insert
\* are separate steps, and other calls run between them.
InitRace == InitCommon /\ storeUnique \in BOOLEAN

NextRace ==
    \/ \E c \in Calls, a \in SyncArgs : syncFirebaseUser(c, a)
    \/ \E so \in StoreOutcomes, c \in Calls : syncSelectDone(c, so)
    \/ \E so \in StoreOutcomes, c \in Calls : syncInsertDone(c, so)

SpecRace == InitRace /\ [][NextRace]_vars

\* The calorie target of users created by syncFirebaseUser, one call at a time.
InitTargets == InitCommon /\ storeUnique = TRUE

NextTargets ==
    \/ \E a \in {OneSyncArg, OtherSyncArg} : syncFirebaseUser(1, a)
    \/ \E so \in StoreOutcomes : syncSelectDone(1, so)
    \/ \E so \in StoreOutcomes : syncInsertDone(1, so)
    \/ \E so \in StoreOutcomes, id \in UserIds : getUserDailyCalorieTarget(id, so)
    \/ \E so \in StoreOutcomes, id \in UserIds, t \in Targets :
          updateUserDailyCalorieTarget(id, t, so)

SpecTargets == InitTargets /\ [][NextTargets]_vars

\* syncFirebaseUser calls one after the other, from any users table.
UserRows ==
    { [id |-> 0, firebase_uid |-> a.firebase_uid, email |-> a.email,
       username |-> EffectiveUsername(a), daily_calorie_target |-> JsNull] :
      a \in {x \in SyncArgs : Truthy(x.firebase_uid)} }

WithIds(rows) == [i \in 1..Len(rows) |-> [rows[i] EXCEPT !.id = i]]

Duplicates(table) ==
    \E i, j \in 1..Len(table) : i < j /\ table[i].firebase_uid = table[j].firebase_uid

InitialTables ==
    { WithIds(rows) : rows \in UNION { [1..n -> UserRows] : n \in 0..MaxUsers } }

InitSeq ==
    /\ http = [r \in Requests |-> NewRequest]
    /\ storeUnique \in BOOLEAN
    /\ users \in { t \in InitialTables : storeUnique => ~Duplicates(t) }
    /\ nextUserId = Len(users) + 1
    /\ calls = [c \in Calls |-> IdleCall]
    /\ food_logs = <<>>
    /\ nextLogId = 1
    /\ last = NoOutcome
    /\ prev = NoOutcome

NextSeq ==
    \/ \E a \in SyncArgs : syncFirebaseUser(1, a)
    \/ \E so \in StoreOutcomes : syncSelectDone(1, so)
    \/ \E so \in StoreOutcomes : syncInsertDone(1, so)

SpecSeq == InitSeq /\ [][NextSeq]_vars

\* Every data-access operation, each on one input.
Init == InitCommon /\ storeUnique \in BOOLEAN

Next ==
    \/ \E so \in StoreOutcomes : getFoodLogsByDate(1, 1, so)
    \/ \E so \in StoreOutcomes : addFoodLog(1, 1, "nasi", JsNum(100), 1, so)
    \/ \E so \in StoreOutcomes : deleteFoodLog(1, so)
    \/ \E so \in StoreOutcomes : getTotalCaloriesInRange(1, 1, MaxDate, so)
    \/ \E so \in StoreOutcomes : getDailyNutritionSummary(1, 1, so)
    \/ syncFirebaseUser(1, OneSyncArg)
    \/ \E so \in StoreOutcomes : syncSelectDone(1, so)
    \/ \E so \in StoreOutcomes : syncInsertDone(1, so)
    \/ \E so \in StoreOutcomes : getUserDailyCalorieTarget(1, so)
    \/ \E so \in StoreOutcomes :
          updateUserDailyCalorieTarget(1, JsStr(<<"1", "8", "0", "0">>), so)

Spec == Init /\ [][Next]_vars

(***************************************************************************)
(* Properties of the users operations.                                     *)
(***************************************************************************)
RowsWithUid(uid) == {i \in 1..Len(users) : users[i].firebase_uid = uid}

RowsWithId(id) == {i \in 1..Len(users) : users[i].id = id}

\* C1: whatever the interleaving of concurrent syncFirebaseUser calls, the
\* users table never holds two rows with the same firebase_uid.
C1_NoDuplicateFirebaseUid ==
    \A i, j \in 1..Len(users) :
        i # j => users[i].firebase_uid # users[j].firebase_uid

\* C2: of two syncFirebaseUser calls with the same firebase_uid run one after
\* the other without store error, the second returns the id the first
\* returned, through the lookup and without inserting, and the table then
\* holds exactly one row with that firebase_uid.
C2_SecondSyncReusesRow ==
    ( /\ last.op = "syncFirebaseUser" /\ last.outcome = "return"
      /\ prev.op = "syncFirebaseUser" /\ prev.outcome = "return"
      /\ last.arg = prev.arg ) =>
        /\ last.value = prev.value
        /\ last.input = Existing
        /\ Cardinality(RowsWithUid(last.arg)) = 1

C2_Witness ==
    /\ last.op = "syncFirebaseUser" /\ last.outcome = "return"
    /\ prev.op = "syncFirebaseUser" /\ prev.outcome = "return"
    /\ last.arg = prev.arg
    /\ prev.input = Inserted
    /\ Len(users) > 1

\* The targets C9 speaks of: null or undefined, a number, a numeric string.
IsClaimedTarget(t) ==
    \/ t.t \in {"null", "undefined", "number"}
    \/ t.t = "string" /\ Len(t.s) > 0 /\ \A i \in 1..Len(t.s) : IsDigit(t.s[i])

\* What C9 says such a target is normalized to.
ClaimedTargetValue(t) ==
    CASE t.t \in {"null", "undefined"} -> JsNull
      [] t = JsStr(<<"1", "8", "0", "0">>) -> JsNum(1800)
      [] OTHER -> t

\* C9: for an existing user and no store error, updateUserDailyCalorieTarget
\* stores and returns null for a null or undefined target and the number for a
\* number or numeric string ("1800" gives 1800); a getUserDailyCalorieTarget
\* that follows returns what the update returned; and
\* getUserDailyCalorieTarget returns null for a user without target or row.
C9_TargetNormalizedAndReadBack ==
    /\ ( /\ last.op = "updateUserDailyCalorieTarget" /\ last.outcome = "return"
         /\ IsClaimedTarget(last.input) ) =>
           /\ last.value = ClaimedTargetValue(last.input)
           /\ \A i \in RowsWithId(last.arg) : users[i].daily_calorie_target = last.value
    /\ ( /\ last.op = "getUserDailyCalorieTarget" /\ last.outcome = "return"
         /\ prev.op = "updateUserDailyCalorieTarget" /\ prev.outcome = "return"
         /\ prev.arg = last.arg /\ IsClaimedTarget(prev.input)
         /\ RowsWithId(last.arg) # {} ) =>
           last.value = prev.value
    /\ ( /\ last.op = "getUserDailyCalorieTarget" /\ last.outcome = "return"
         /\ \A i \in RowsWithId(last.arg) : users[i].daily_calorie_target = JsNull ) =>
           last.value = JsNull

C9_Witness ==
    /\ last.op = "getUserDailyCalorieTarget" /\ last.outcome = "return"
    /\ prev.op = "updateUserDailyCalorieTarget" /\ prev.outcome = "return"
    /\ prev.arg = last.arg
    /\ prev.input = JsStr(<<"1", "8", "0", "0">>)
    /\ RowsWithId(last.arg) # {}
    /\ last.value = JsNum(1800)

(***************************************************************************)
(* Properties of the error channel and of the food_logs operations.        *)
(***************************************************************************)
\* C6: getDailyNutritionSummary never throws, and answers
\* {protein: 0, carbs: 0, fat: 0} when its query reports an error or raises;
\* every other operation throws the store's error when the store reports one.
C6_OnlySummarySwallowsErrors ==
    /\ last.op = "getDailyNutritionSummary" =>
          /\ last.outcome = "return"
          /\ last.store \in {"error", "exception"} =>
                last.value = [protein |-> JsNum(0), carbs |-> JsNum(0), fat |-> JsNum(0)]
    /\ (last.op \notin {"none", "getDailyNutritionSummary"} /\ last.store = "error") =>
          /\ last.outcome = "throw"
          /\ last.value \in StoreErrors

C6_Witness ==
    /\ last.op = "getDailyNutritionSummary"
    /\ last.store = "exception"
    /\ last.outcome = "return"
    /\ food_logs # <<>>

\* The rows of the table a call for (userId, startDate..endDate) is about.
Matching(table, userId, startDate, endDate) ==
    {i \in 1..Len(table) :
        /\ table[i].user_id = userId
        /\ startDate <= table[i].date
        /\ table[i].date <= endDate}

\* What C7 says a row contributes: its calories when numeric (a number or a
\* numeric string), 0 when null, missing or not numeric.
ClaimedCalories(v) ==
    IF v.t = "number" THEN v.n
    ELSE IF v.t = "string" /\ v.s # <<>> /\ \A i \in 1..Len(v.s) : IsDigit(v.s[i])
    THEN DecimalValue(v.s)
    ELSE 0

RECURSIVE ClaimedSum(_, _)
ClaimedSum(table, rows) ==
    IF rows = {} THEN 0
    ELSE LET i == CHOOSE k \in rows : TRUE
         IN  ClaimedCalories(table[i].calories) + ClaimedSum(table, rows \ {i})

\* C7: the total is the sum of the numeric calories of the matching rows, a
\* row whose calories is null, missing or not numeric contributing 0.
C7_NonNumericCountsAsZero ==
    \A u \in LogUsers, a \in Dates, b \in Dates :
        TotalCalories(food_logs, u, a, b) =
            JsNum(ClaimedSum(food_logs, Matching(food_logs, u, a, b)))

\* The table without its i-th row.
WithoutRow(table, i) == SubSeq(table, 1, i - 1) \o SubSeq(table, i + 1, Len(table))

====
